---- MODULE Spec2Model ----
(***************************************************************************)
(* MemoryService (src/src/learning-agent/services/memory_service.py): a    *)
(* ChromaDB-backed document store with a lifecycle (initialize / close),   *)
(* store / get / delete / search, collection statistics and age-based      *)
(* cleanup.  The service object's fields, the persistent collections the   *)
(* backend keeps per storage path and the wall clock are the state; every  *)
(* public method is one action.                                            *)
(*                                                                         *)
(* Python values: None is the option record [isNone |-> TRUE]; a dict is a *)
(* function from key strings to tagged values; a metadata value is         *)
(* [t |-> "str", v |-> <<character codes>>] or [t |-> "int", v |-> <<n>>]. *)
(* Document contents and ids are strings.  Time is counted in ticks of     *)
(* half a second since datetime.min.                                       *)
(***************************************************************************)
EXTENDS Integers, Sequences, FiniteSets, TLC

VARIABLES
    initialized,   \* self._initialized
    client,        \* self.client: None or the client opened on a path
    collection,    \* self.collection: None or the collection of a path
    db,            \* the backend's persistent collection of every path
    now,           \* the wall clock read by datetime.now()
    closed,        \* history: close() has been called on a Ready store
    last,          \* the last call: method, arguments, fault, outcome, backend calls
    justStored     \* history: the latest successful store_document, while only
                   \* get_document calls have followed it

vars == <<initialized, client, collection, db, now, closed, last, justStored>>

----
\* Bounds of the model
MaxDocs == 2        \* documents held by the backend, all paths together
MaxStored == 1      \* the same, where contents and metadata vary
MaxTicks == 1       \* half-second ticks the clock advances within a day
MaxDays == 1        \* whole days the clock advances
MaxAge == 2         \* largest max_age_days passed to cleanup
MaxDist == 2        \* largest distance the backend reports
MaxLimit == 2       \* largest limit passed to search

\* Program and library constants
EmbedLimit == 8000
PreviewLimit == 200
SampleLimit == 100
TicksPerSecond == 2
MicrosPerTick == 500000
SecondsPerDay == 86400
TicksPerDay == SecondsPerDay * TicksPerSecond
StartDay == 1

----
\* Python values

None == [isNone |-> TRUE]
Some(x) == [isNone |-> FALSE, v |-> x]

StrVal(s) == [t |-> "str", v |-> s]
IntVal(n) == [t |-> "int", v |-> <<n>>]

EmptyDict == <<>>

\* dict.update(u): the keys of u replace or extend those of d
DictUpdate(d, u) ==
    [k \in (DOMAIN d) \cup (DOMAIN u) |-> IF k \in DOMAIN u THEN u[k] ELSE d[k]]

Min(a, b) == IF a < b THEN a ELSE b

----
\* datetime.isoformat() and the comparison of str

Digit(n) == 48 + n
Pad2(n) == <<Digit(n \div 10), Digit(n % 10)>>
Pad4(n) == <<Digit(n \div 1000), Digit((n \div 100) % 10),
             Digit((n \div 10) % 10), Digit(n % 10)>>
Pad6(n) == <<Digit(n \div 100000), Digit((n \div 10000) % 10),
             Digit((n \div 1000) % 10), Digit((n \div 100) % 10),
             Digit((n \div 10) % 10), Digit(n % 10)>>

\* date "T" HH ":" MM ":" SS, then "." and six digits unless the microsecond is 0.
\* The date is written as the zero-padded day number: like YYYY-MM-DD it has a
\* fixed width and sorts as the calendar does.
IsoFormat(t) ==
    LET day == t \div TicksPerDay
        rem == t % TicksPerDay
        s   == rem \div TicksPerSecond
        us  == (rem % TicksPerSecond) * MicrosPerTick
    IN  Pad4(day) \o <<84>> \o Pad2(s \div 3600) \o <<58>>
          \o Pad2((s \div 60) % 60) \o <<58>> \o Pad2(s % 60)
          \o (IF us = 0 THEN <<>> ELSE <<46>> \o Pad6(us))

\* a < b on str: lexicographic on the character codes
StrLess(a, b) ==
    \E i \in 1..Len(b) :
        /\ \A j \in 1..(i - 1) : j <= Len(a) /\ a[j] = b[j]
        /\ (i > Len(a) \/ a[i] < b[i])

\* int(datetime.now().timestamp())
Timestamp(t) == t \div TicksPerSecond

----
\* Inputs

RECURSIVE Doubled(_, _)
Doubled(s, k) == IF k = 0 THEN s ELSE Doubled(s \o s, k - 1)

\* a content one character longer than the embedding limit
LongContent == SubSeq(Doubled("a", 13), 1, EmbedLimit + 1)

Contents == {"", "hi", LongContent}

\* a headline, as a caller stores it
NewsContent == "Breaking news: markets rally"

\* hashlib.md5(content.encode()).hexdigest()[:8] of the contents above
Hash8(content) ==
    CASE content = "" -> "d41d8cd9"
      [] content = "hi" -> "49f68a5c"
      [] content = NewsContent -> "47e4325a"
      [] content = LongContent -> "1a79c257"
      [] OTHER -> "00000000"

DefaultPath == "./data/chroma"
OtherPath == "/tmp/other"
Paths == {DefaultPath, OtherPath}
PathArgs == {None, Some(OtherPath)}

DocIdArgs == {None, Some("a")}
DocIds == {"a", "b"}

TopicX == StrVal(<<120>>)
MetaArgs == {None,
             Some(EmptyDict),
             Some(("topic" :> TopicX)),
             Some(("topic" :> TopicX) @@ ("created_at" :> StrVal(<<49, 57, 57, 57>>)))}

FilterArgs == {None, Some(("topic" :> TopicX))}
Queries == {"news"}

----
\* The backend (chromadb Collection) as the service uses it

Ids(c) == DOMAIN c

TotalDocs == Cardinality(Ids(db[DefaultPath])) + Cardinality(Ids(db[OtherPath]))

\* BackendAdd, had store_document called Collection.upsert
BackendAdd_Upsert(c, id, doc, meta) ==
    [i \in Ids(c) \cup {id} |->
        IF i = id THEN [document |-> doc, metadata |-> meta] ELSE c[i]]

\* Collection.add: an id that is already stored is left as it is
BackendAdd(c, id, doc, meta) ==
    IF id \in Ids(c) THEN c
    ELSE [i \in Ids(c) \cup {id} |->
             IF i = id THEN [document |-> doc, metadata |-> meta] ELSE c[i]]

\* Collection.delete(ids): ids that are not stored are ignored
BackendDelete(c, ids) == [i \in Ids(c) \ ids |-> c[i]]

\* the where filter of Collection.query: exact match on every key
Matches(meta, filter) ==
    filter.isNone \/
    \A k \in DOMAIN filter.v : k \in DOMAIN meta /\ meta[k] = filter.v[k]

----
\* Results of a call

Returned(op, args, fault, result, calls) ==
    [op |-> op, args |-> args, fault |-> fault, outcome |-> "returned",
     result |-> result, calls |-> calls]

Raised(op, args, fault, error, calls) ==
    [op |-> op, args |-> args, fault |-> fault, outcome |-> "raised",
     result |-> [error |-> error], calls |-> calls]

\* _ensure_initialized passes
Ready == initialized /\ ~collection.isNone

\* NotInitialized, had the guard answered with a value instead of raising
NotInitialized_Returns(op, args) ==
    /\ ~Ready
    /\ last' = Returned(op, args, 0, None, <<>>)
    /\ UNCHANGED <<initialized, client, collection, db, now, closed>>

\* RuntimeError("Memory service not initialized. Call initialize() first.")
NotInitialized(op, args) ==
    /\ ~Ready
    /\ last' = Raised(op, args, 0, "RuntimeError", <<>>)
    /\ UNCHANGED <<initialized, client, collection, db, now, closed>>

----
Init ==
    /\ initialized = FALSE
    /\ client = None
    /\ collection = None
    /\ db = [p \in Paths |-> EmptyDict]
    /\ now = StartDay * TicksPerDay
    /\ closed = FALSE
    /\ last = [op |-> "__init__", args |-> <<>>, fault |-> 0, outcome |-> "returned",
               result |-> None, calls |-> <<>>]
    /\ justStored = None

\* AlreadyInitialized, had the early return been missing
AlreadyInitialized_Reopens(args) ==
    /\ initialized
    /\ client' = Some(IF args.db_path.isNone THEN DefaultPath ELSE args.db_path.v)
    /\ collection' = Some(IF args.db_path.isNone THEN DefaultPath ELSE args.db_path.v)
    /\ last' = Returned("initialize", args, 0, None,
           <<"mkdir", "PersistentClient", "get_or_create_collection">>)
    /\ UNCHANGED <<initialized, db, now, closed>>

\* if self._initialized: return
AlreadyInitialized(args) ==
    /\ initialized
    /\ last' = Returned("initialize", args, 0, None, <<>>)
    /\ UNCHANGED <<initialized, client, collection, db, now, closed>>

\* initialize(db_path); fault is the step that raises (0: none, 1: mkdir,
\* 2: PersistentClient, 3: get_or_create_collection)
Initialize(db_path, fault) ==
    LET args == [db_path |-> db_path]
        path == IF db_path.isNone THEN DefaultPath ELSE db_path.v
    IN  /\ \/ AlreadyInitialized(args) /\ fault = 0
           \/ /\ ~initialized
              /\ CASE fault = 1 ->
                       /\ last' = Raised("initialize", args, fault, "OSError", <<"mkdir">>)
                       /\ UNCHANGED <<initialized, client, collection>>
                   [] fault = 2 ->
                       /\ last' = Raised("initialize", args, fault, "BackendError",
                              <<"mkdir", "PersistentClient">>)
                       /\ UNCHANGED <<initialized, client, collection>>
                   [] fault = 3 ->
                       /\ client' = Some(path)
                       /\ last' = Raised("initialize", args, fault, "BackendError",
                              <<"mkdir", "PersistentClient", "get_or_create_collection">>)
                       /\ UNCHANGED <<initialized, collection>>
                   [] OTHER ->
                       /\ client' = Some(path)
                       /\ collection' = Some(path)
                       /\ initialized' = TRUE
                       /\ last' = Returned("initialize", args, fault, None,
                              <<"mkdir", "PersistentClient", "get_or_create_collection">>)
              /\ UNCHANGED <<db, now, closed>>
        /\ justStored' = None

\* CloseEffect, had close() reset the client only
CloseEffect_ClientOnly ==
    /\ IF ~client.isNone
       THEN /\ client' = None
            /\ closed' = (closed \/ Ready)
            /\ UNCHANGED <<initialized, collection>>
       ELSE UNCHANGED <<initialized, client, collection, closed>>
    /\ justStored' = None
    /\ UNCHANGED <<db, now>>

\* the body of close(): the references are reset when a client is held
CloseEffect ==
    /\ IF ~client.isNone
       THEN /\ collection' = None
            /\ client' = None
            /\ initialized' = FALSE
            /\ closed' = (closed \/ Ready)
       ELSE UNCHANGED <<initialized, client, collection, closed>>
    /\ justStored' = None
    /\ UNCHANGED <<db, now>>

\* close()
Close ==
    /\ CloseEffect
    /\ last' = Returned("close", <<>>, 0, None, <<>>)

\* Exit, had close() used the client without the guard on None
Exit_Unguarded ==
    IF client = None
    THEN /\ last' = Raised("__exit__", <<>>, 0, "AttributeError", <<>>)
         /\ justStored' = None
         /\ UNCHANGED <<initialized, client, collection, db, now, closed>>
    ELSE /\ CloseEffect
         /\ last' = Returned("__exit__", <<>>, 0, None, <<>>)

\* __exit__(exc_type, exc_val, exc_tb): self.close()
Exit ==
    /\ CloseEffect
    /\ last' = Returned("__exit__", <<>>, 0, None, <<>>)

----
\* f"doc_{content_hash}_{timestamp}"
GenId(content, t) == "doc_" \o Hash8(content) \o "_" \o ToString(Timestamp(t))

\* doc_id of the stored document: the caller's, or the generated one
StoreId(content, doc_id) == IF doc_id.isNone THEN GenId(content, now) ELSE doc_id.v

\* {"created_at": datetime.now().isoformat(), "content_length": len(content)}
SystemFields(content, t) ==
    ("created_at" :> StrVal(IsoFormat(t))) @@ ("content_length" :> IntVal(Len(content)))

\* doc_metadata = metadata or {}; doc_metadata.update(...)
DocMetadata(content, metadata, t) ==
    DictUpdate(IF metadata.isNone \/ DOMAIN metadata.v = {} THEN EmptyDict ELSE metadata.v,
               SystemFields(content, t))

\* content[:8000] if len(content) > 8000 else content
EmbeddingContent(content) ==
    IF Len(content) > EmbedLimit THEN SubSeq(content, 1, EmbedLimit) ELSE content

\* the caller's metadata mapping once store_document has run: "metadata or {}"
\* is the caller's own mapping when that is not empty, and update() writes the
\* system fields into it; None and the empty mapping are left as they were
CallerMetadataAfter(content, metadata, t) ==
    IF metadata.isNone \/ DOMAIN metadata.v = {} THEN metadata
    ELSE Some(DocMetadata(content, metadata, t))

\* the outcome of store_document when Collection.add raises
StoreFailure(op, args, fault, id) ==
    Returned(op, args, fault,
        [stored |-> FALSE, error |-> "BackendError", doc_id |-> id], <<"add">>)

\* store_document(content, doc_id, metadata); fault 1: Collection.add raises.
\* Both datetime.now() reads of a call (id timestamp, created_at) see the same now.
\* The record of the call keeps what the caller's metadata mapping holds afterwards.
StoreDocument(content, doc_id, metadata, fault) ==
    LET args == [content |-> content, doc_id |-> doc_id, metadata |-> metadata]
        id   == StoreId(content, doc_id)
        meta == DocMetadata(content, metadata, now)
        after == CallerMetadataAfter(content, metadata, now)
    IN  \/ /\ NotInitialized("store_document", args)
           /\ fault = 0
           /\ justStored' = None
        \/ /\ Ready
           /\ IF fault = 1
              THEN /\ last' = StoreFailure("store_document", args, fault, id)
                                @@ [caller_metadata |-> after]
                   /\ justStored' = None
                   /\ UNCHANGED db
              ELSE /\ db' = [db EXCEPT ![collection.v] =
                                BackendAdd(@, id, EmbeddingContent(content), meta)]
                   /\ last' = Returned("store_document", args, fault,
                          [stored |-> TRUE, doc_id |-> id, content_length |-> Len(content),
                           timestamp |-> meta["created_at"], metadata |-> meta], <<"add">>)
                                @@ [caller_metadata |-> after]
                   /\ justStored' = Some([doc_id |-> id, content |-> content,
                                          metadata |-> metadata, at |-> now,
                                          existed |-> id \in Ids(db[collection.v])])
           /\ UNCHANGED <<initialized, client, collection, now, closed>>

\* GetResult, had it indexed the answer as search_documents indexes a query's
GetResult_FirstChar(c, doc_id) ==
    IF doc_id \in Ids(c) /\ c[doc_id].document # ""
    THEN Some([doc_id |-> doc_id, content |-> SubSeq(c[doc_id].document, 1, 1),
               metadata |-> c[doc_id].metadata])
    ELSE None

\* the document get_document builds from the backend's answer, or None
GetResult(c, doc_id) ==
    IF doc_id \in Ids(c) /\ c[doc_id].document # ""
    THEN Some([doc_id |-> doc_id, content |-> c[doc_id].document,
               metadata |-> c[doc_id].metadata])
    ELSE None

\* GetFailure, had the except branch returned the error as data
GetFailure_WithError(op, args, fault) ==
    Returned(op, args, fault, [error |-> "BackendError", doc_id |-> args.doc_id], <<"get">>)

\* the outcome of get_document when Collection.get raises
GetFailure(op, args, fault) == Returned(op, args, fault, None, <<"get">>)

\* get_document(doc_id); fault 1: Collection.get raises
GetDocument(doc_id, fault) ==
    LET args == [doc_id |-> doc_id]
    IN  /\ \/ NotInitialized("get_document", args) /\ fault = 0
           \/ /\ Ready
              /\ last' = IF fault = 1 THEN GetFailure("get_document", args, fault)
                         ELSE Returned("get_document", args, fault,
                                  GetResult(db[collection.v], doc_id), <<"get">>)
              /\ UNCHANGED <<initialized, client, collection, db, now, closed>>
        /\ UNCHANGED justStored

\* the outcome of delete_document when Collection.delete raises
DeleteFailure(op, args, fault) == Returned(op, args, fault, FALSE, <<"delete">>)

\* DeleteDocument, had it reported whether the id was stored
DeleteDocument_ReportsFound(doc_id, fault) ==
    LET args == [doc_id |-> doc_id]
    IN  /\ \/ NotInitialized("delete_document", args) /\ fault = 0
           \/ /\ Ready
              /\ IF fault = 1
                 THEN /\ last' = DeleteFailure("delete_document", args, fault)
                      /\ UNCHANGED db
                 ELSE /\ db' = [db EXCEPT ![collection.v] = BackendDelete(@, {doc_id})]
                      /\ last' = Returned("delete_document", args, fault,
                                          doc_id \in Ids(db[collection.v]), <<"delete">>)
              /\ UNCHANGED <<initialized, client, collection, now, closed>>
        /\ justStored' = None

\* delete_document(doc_id); fault 1: Collection.delete raises
DeleteDocument(doc_id, fault) ==
    LET args == [doc_id |-> doc_id]
    IN  /\ \/ NotInitialized("delete_document", args) /\ fault = 0
           \/ /\ Ready
              /\ IF fault = 1
                 THEN /\ last' = DeleteFailure("delete_document", args, fault)
                      /\ UNCHANGED db
                 ELSE /\ db' = [db EXCEPT ![collection.v] = BackendDelete(@, {doc_id})]
                      /\ last' = Returned("delete_document", args, fault, TRUE, <<"delete">>)
              /\ UNCHANGED <<initialized, client, collection, now, closed>>
        /\ justStored' = None

----
\* doc[:200] + "..." if len(doc) > 200 else doc
ContentPreview(doc) ==
    IF Len(doc) > PreviewLimit THEN SubSeq(doc, 1, PreviewLimit) \o "..." ELSE doc

\* the answers Collection.query may give: up to n_results documents that match
\* the filter, each once, in any order and with any distances
QueryHits(c, limit, filter) ==
    LET matching == {i \in Ids(c) : Matches(c[i].metadata, filter)}
        k == Min(limit, Cardinality(matching))
    IN  UNION {{h \in [1..n -> [id : matching, distance : 0..MaxDist]] :
                   \A x, y \in 1..n : x # y => h[x].id # h[y].id} : n \in 0..k}

\* the records search_documents builds, in the backend's order
DocData(c, hits) ==
    [i \in 1..Len(hits) |->
        [doc_id |-> hits[i].id,
         content |-> c[hits[i].id].document,
         content_preview |-> ContentPreview(c[hits[i].id].document),
         metadata |-> c[hits[i].id].metadata,
         distance |-> hits[i].distance]]

\* x placed behind the elements of the sorted s that are not greater
InsertByDistance(s, x) ==
    LET k == Cardinality({i \in 1..Len(s) : s[i].distance <= x.distance})
    IN  SubSeq(s, 1, k) \o <<x>> \o SubSeq(s, k + 1, Len(s))

RECURSIVE SortedFrom(_, _, _)
SortedFrom(acc, docs, i) ==
    IF i > Len(docs) THEN acc ELSE SortedFrom(InsertByDistance(acc, docs[i]), docs, i + 1)

\* SortedByDistance, had the documents been returned in the backend's order
SortedByDistance_Unsorted(docs) == docs

\* sorted(documents, key=lambda x: x["distance"]): ascending and stable
SortedByDistance(docs) == SortedFrom(<<>>, docs, 1)

\* the outcome of search_documents when Collection.query raises
SearchFailure(op, args, fault) == Returned(op, args, fault, <<>>, <<"query">>)

\* search_documents(query, limit, metadata_filter); hits is the backend's
\* answer; fault 1: Collection.query raises
SearchDocuments(query, limit, filter, hits, fault) ==
    LET args == [query |-> query, limit |-> limit, metadata_filter |-> filter,
                 hits |-> hits]
    IN  /\ \/ NotInitialized("search_documents", args) /\ fault = 0 /\ hits = <<>>
           \/ /\ Ready
              /\ IF fault = 1
                 THEN /\ hits = <<>>
                      /\ last' = SearchFailure("search_documents", args, fault)
                 ELSE /\ hits \in QueryHits(db[collection.v], limit, filter)
                      /\ last' = Returned("search_documents", args, fault,
                             SortedByDistance(DocData(db[collection.v], hits)), <<"query">>)
              /\ UNCHANGED <<initialized, client, collection, db, now, closed>>
        /\ justStored' = None

----
\* the sum of f over S, taken value by value
RECURSIVE SumValues(_, _, _)
SumValues(f, S, V) ==
    IF V = {} THEN 0
    ELSE LET v == CHOOSE w \in V : TRUE
         IN  v * Cardinality({i \in S : f[i] = v}) + SumValues(f, S, V \ {v})

SumOver(f, S) == SumValues(f, S, {f[i] : i \in S})

\* what one sampled metadata adds to total_length
CountedLength(meta) ==
    IF DOMAIN meta # {} /\ "content_length" \in DOMAIN meta
          /\ meta["content_length"].t = "int"
    THEN meta["content_length"].v[1]
    ELSE 0

\* the subsets of S that have k elements
RECURSIVE SubsetsOfSize(_, _)
SubsetsOfSize(S, k) ==
    IF k = 0 THEN {{}}
    ELSE UNION {{T \cup {x} : x \in S \ T} : T \in SubsetsOfSize(S, k - 1)}

\* the answers Collection.get(limit=n) may give: n of the stored documents
\* (all of them when fewer are stored), named by the documents left out
Samples(c, limit) ==
    LET n == Cardinality(Ids(c))
    IN  {Ids(c) \ E : E \in SubsetsOfSize(Ids(c), n - Min(limit, n))}

\* SampleRequest, had the limit been the count itself
SampleRequest_Uncapped(count) == count

\* the limit get_collection_stats asks Collection.get for: min(100, count)
SampleRequest(count) == Min(SampleLimit, count)

\* StatsCalls, had the sample been taken without counting first
StatsCalls_GetOnly == <<"get">>

\* the backend calls of get_collection_stats: collection.count(), then
\* collection.get(limit=...)
StatsCalls == <<"count", "get">>

\* AvgLength, had the average been rounded up
AvgLength_Ceiling(total_length, sampled) ==
    IF sampled # 0 THEN (total_length + sampled - 1) \div sampled ELSE 0

\* total_length // len(sample_results["metadatas"]) if sample_results["metadatas"] else 0
AvgLength(total_length, sampled) ==
    IF sampled # 0 THEN total_length \div sampled ELSE 0

\* the outcome of get_collection_stats when the backend raises
StatsFailure(op, fault, calls) ==
    Returned(op, <<>>, fault,
        [collection_name |-> "learning_data", total_documents |-> 0,
         total_content_length |-> 0, avg_content_length |-> 0,
         initialized |-> initialized, error |-> "BackendError"], calls)

\* get_collection_stats(); sample is what Collection.get(limit=...) answers;
\* fault: the backend call that raises (1: count, 2: get). The record of the
\* call keeps the limit that was asked for and the number of documents the
\* backend answered with.
GetCollectionStats(sample, fault) ==
    LET c == db[collection.v]
        count == Cardinality(Ids(c))
        total_length == SumOver([i \in sample |-> CountedLength(c[i].metadata)], sample)
        avg_length == AvgLength(total_length, Cardinality(sample))
    IN  /\ \/ NotInitialized("get_collection_stats", <<>>) /\ fault = 0 /\ sample = {}
           \/ /\ Ready
              /\ CASE fault = 1 ->
                       /\ sample = {}
                       /\ last' = StatsFailure("get_collection_stats", fault, <<"count">>)
                   [] fault = 2 ->
                       /\ sample = {}
                       /\ last' = StatsFailure("get_collection_stats", fault, StatsCalls)
                   [] OTHER ->
                       /\ sample \in Samples(c, SampleRequest(count))
                       /\ last' = Returned("get_collection_stats", <<>>, fault,
                              [collection_name |-> "learning_data", total_documents |-> count,
                               total_content_length |-> total_length,
                               avg_content_length |-> avg_length,
                               initialized |-> initialized], StatsCalls)
                                @@ [limit |-> SampleRequest(count),
                                    sampled |-> Cardinality(sample)]
              /\ UNCHANGED <<initialized, client, collection, db, now, closed>>
        /\ justStored' = None

----
\* IsOld, had the comparison been created_at <= cutoff_iso
IsOld_OrEqual(meta, cutoff_iso) ==
    /\ DOMAIN meta # {}
    /\ "created_at" \in DOMAIN meta
    /\ meta["created_at"].t = "str"
    /\ (StrLess(meta["created_at"].v, cutoff_iso) \/ meta["created_at"].v = cutoff_iso)

\* created_at < cutoff_iso for a metadata that has a str created_at
IsOld(meta, cutoff_iso) ==
    /\ DOMAIN meta # {}
    /\ "created_at" \in DOMAIN meta
    /\ meta["created_at"].t = "str"
    /\ StrLess(meta["created_at"].v, cutoff_iso)

\* old_doc_ids
OldDocIds(c, cutoff_iso) == {i \in Ids(c) : IsOld(c[i].metadata, cutoff_iso)}

\* CutoffDate, had the cutoff been the start of the day of now - max_age_days
CutoffDate_StartOfDay(t, max_age_days) ==
    (t \div TicksPerDay) * TicksPerDay - max_age_days * TicksPerDay

\* datetime.now() - timedelta(days=max_age_days)
CutoffDate(t, max_age_days) == t - max_age_days * TicksPerDay

\* CleanupFailure, had the exception left cleanup_old_documents
CleanupFailure_Raises(op, args, fault, error, calls) ==
    Raised(op, args, fault, error, calls)

\* the outcome of cleanup_old_documents when its try block raises
CleanupFailure(op, args, fault, error, calls) ==
    Returned(op, args, fault, [removed |-> 0, error |-> error], calls)

\* cleanup_old_documents(max_age_days); fault: the backend call that raises
\* (1: get, 2: delete)
CleanupOldDocuments(max_age_days, fault) ==
    LET args == [max_age_days |-> max_age_days]
        cutoff == CutoffDate(now, max_age_days)
        cutoff_iso == IsoFormat(cutoff)
        old == OldDocIds(db[collection.v], cutoff_iso)
    IN  /\ \/ NotInitialized("cleanup_old_documents", args) /\ fault = 0
           \/ /\ Ready
              /\ CASE cutoff < 0 ->
                       \* the subtraction leaves the range of datetime: OverflowError
                       /\ fault = 0
                       /\ last' = CleanupFailure("cleanup_old_documents", args, fault,
                                                 "OverflowError", <<>>)
                       /\ UNCHANGED db
                   [] cutoff >= 0 /\ fault = 1 ->
                       /\ last' = CleanupFailure("cleanup_old_documents", args, fault,
                                                 "BackendError", <<"get">>)
                       /\ UNCHANGED db
                   [] cutoff >= 0 /\ fault = 2 ->
                       /\ old # {}
                       /\ last' = CleanupFailure("cleanup_old_documents", args, fault,
                                                 "BackendError", <<"get", "delete">>)
                       /\ UNCHANGED db
                   [] OTHER ->
                       /\ db' = [db EXCEPT ![collection.v] =
                                    IF old # {} THEN BackendDelete(@, old) ELSE @]
                       /\ last' = Returned("cleanup_old_documents", args, fault,
                              [removed |-> Cardinality(old), cutoff_date |-> cutoff_iso,
                               max_age_days |-> max_age_days],
                              IF old # {} THEN <<"get", "delete">> ELSE <<"get">>)
              /\ UNCHANGED <<initialized, client, collection, now, closed>>
        /\ justStored' = None

----
\* The clock moves on by half a second
Tick ==
    /\ now % TicksPerDay < MaxTicks
    /\ now' = now + 1
    /\ UNCHANGED <<initialized, client, collection, db, closed, last, justStored>>

\* The clock moves on by a day
NextDay ==
    /\ now \div TicksPerDay < StartDay + MaxDays
    /\ now' = now + TicksPerDay
    /\ UNCHANGED <<initialized, client, collection, db, closed, last, justStored>>

----
\* What the backend may answer in the current state
HitsNow(limit, filter) ==
    IF Ready THEN QueryHits(db[collection.v], limit, filter) ELSE {<<>>}

SamplesNow ==
    IF Ready
    THEN Samples(db[collection.v], SampleRequest(Cardinality(Ids(db[collection.v])))) \cup {{}}
    ELSE {{}}

StoredIds == UNION {Ids(db[p]) : p \in Paths}

\* Lifecycle and failures: every method, both paths, every fault
Next ==
    \/ \E p \in PathArgs, f \in 0..3 : Initialize(p, f)
    \/ \E d \in DocIdArgs, f \in 0..1 :
           StoreDocument("hi", d, None, f) /\ TotalDocs' <= MaxDocs
    \/ \E h \in HitsNow(1, None), f \in 0..1 : SearchDocuments("news", 1, None, h, f)
    \/ \E d \in {"a"}, f \in 0..1 : GetDocument(d, f)
    \/ \E d \in {"a"}, f \in 0..1 : DeleteDocument(d, f)
    \/ \E s \in SamplesNow, f \in 0..2 : GetCollectionStats(s, f)
    \/ \E a \in 0..MaxAge, f \in 0..2 : CleanupOldDocuments(a, f)
    \/ Close
    \/ Exit
    \/ NextDay

Spec == Init /\ [][Next]_vars

\* Documents: contents, ids and metadata vary on one collection
NextDocuments ==
    \/ Initialize(None, 0)
    \/ \E c \in Contents, d \in DocIdArgs, m \in MetaArgs :
           StoreDocument(c, d, m, 0) /\ TotalDocs' <= MaxStored
    \/ \E d \in DocIds \cup StoredIds : GetDocument(d, 0)
    \/ \E d \in DocIds \cup StoredIds : DeleteDocument(d, 0)
    \/ Tick

SpecDocuments == Init /\ [][NextDocuments]_vars

\* Retention: documents of different ages and the cleanup
NextRetention ==
    \/ Initialize(None, 0)
    \/ \E d \in DocIdArgs \cup {Some("b")} :
           StoreDocument("hi", d, None, 0) /\ TotalDocs' <= MaxDocs
    \/ \E a \in 0..MaxAge, f \in 0..2 : CleanupOldDocuments(a, f)
    \/ Tick
    \/ NextDay

SpecRetention == Init /\ [][NextRetention]_vars

\* Search: any answer of the backend to any query
NextSearch ==
    \/ Initialize(None, 0)
    \/ \E c \in {"hi", LongContent}, d \in {Some("a"), Some("b")},
          m \in {None, Some(("topic" :> TopicX))} :
           StoreDocument(c, d, m, 0) /\ TotalDocs' <= MaxDocs
    \/ \E d \in DocIds : DeleteDocument(d, 0)
    \/ \E q \in Queries, l \in 1..MaxLimit, w \in FilterArgs, f \in 0..1 :
           \E h \in HitsNow(l, w) : SearchDocuments(q, l, w, h, f)

SpecSearch == Init /\ [][NextSearch]_vars

\* the doc_id arguments of a caller that names its documents; the method tests
\* the argument against None only, so the empty string is an id like any other
CallerIds == {None, Some(""), Some("a")}

\* Ids: generated and caller-supplied ids, the backend taking or refusing them
NextIds ==
    \/ Initialize(None, 0)
    \/ \E c \in {"hi", NewsContent}, d \in CallerIds, f \in 0..1 :
           StoreDocument(c, d, None, f) /\ TotalDocs' <= MaxDocs
    \/ \E d \in {"", "a"} \cup StoredIds : GetDocument(d, 0)
    \/ \E d \in {"", "a"} \cup StoredIds : DeleteDocument(d, 0)
    \/ Tick

SpecIds == Init /\ [][NextIds]_vars

----
\* A persistent directory keeps its collection from one run of the service to
\* the next: initialize opens whatever "learning_data" holds there.

\* the k-th of the documents stored by earlier runs: store_document("hi" or "h",
\* doc_id="d<k>") at the start time
BulkId(k) == "d" \o ToString(k)

BulkDoc(k) ==
    LET content == IF k % 2 = 0 THEN "hi" ELSE "h"
    IN  [document |-> EmbeddingContent(content),
         metadata |-> DocMetadata(content, None, StartDay * TicksPerDay)]

Bulk(n) ==
    [i \in {BulkId(k) : k \in 1..n} |-> BulkDoc(CHOOSE k \in 1..n : BulkId(k) = i)]

\* documents written to the collection by another client of the backend, which
\* does not set the metadata store_document sets: no metadata at all (the
\* backend answers None, which is as falsy as {}), no created_at, a created_at
\* that is a number, the empty string, a word; and one written by store_document
ForeignDocs ==
    ("m1" :> [document |-> "hi", metadata |-> EmptyDict])
 @@ ("m2" :> [document |-> "hi", metadata |-> ("topic" :> TopicX)])
 @@ ("m3" :> [document |-> "hi", metadata |-> ("created_at" :> IntVal(0))])
 @@ ("m4" :> [document |-> "hi", metadata |-> ("created_at" :> StrVal(<<>>))])
 @@ ("m5" :> [document |-> "hi", metadata |-> ("created_at" :> StrVal(<<115, 111, 111, 110>>))])
 @@ ("m6" :> [document |-> "hi", metadata |-> DocMetadata("hi", None, StartDay * TicksPerDay)])

\* what the default directory may hold when the service is constructed
ExistingCollections ==
    {Bulk(n) : n \in {SampleLimit - 1, SampleLimit, SampleLimit + 1}} \cup {ForeignDocs}

InitExisting ==
    /\ initialized = FALSE
    /\ client = None
    /\ collection = None
    /\ \E c \in ExistingCollections :
           db = [p \in Paths |-> IF p = DefaultPath THEN c ELSE EmptyDict]
    /\ now = StartDay * TicksPerDay
    /\ closed = FALSE
    /\ last = [op |-> "__init__", args |-> <<>>, fault |-> 0, outcome |-> "returned",
               result |-> None, calls |-> <<>>]
    /\ justStored = None

\* Existing data: statistics and cleanup on a collection filled before this run
NextExisting ==
    \/ Initialize(None, 0)
    \/ StoreDocument("hi", Some("a"), None, 0) /\ TotalDocs' <= SampleLimit + 1
    \/ \E d \in {BulkId(1), BulkId(2), "m4"} : DeleteDocument(d, 0)
    \/ \E s \in SamplesNow, f \in 0..2 : GetCollectionStats(s, f)
    \/ \E a \in 0..MaxAge : CleanupOldDocuments(a, 0)
    \/ NextDay

SpecExisting == InitExisting /\ [][NextExisting]_vars

----
\* The clock moves on by five days
FiveDaysLater ==
    /\ now \div TicksPerDay = StartDay
    /\ now' = now + 5 * TicksPerDay
    /\ UNCHANGED <<initialized, client, collection, db, closed, last, justStored>>

\* Ageing: a document stored at the start, one stored five days later, and the
\* cleanup
NextAgeing ==
    \/ Initialize(None, 0)
    \/ StoreDocument("hi", Some("old"), None, 0) /\ now \div TicksPerDay = StartDay
    \/ StoreDocument("hi", Some("new"), None, 0) /\ now \div TicksPerDay = StartDay + 5
    \/ \E d \in {"old", "new"} : GetDocument(d, 0)
    \/ \E a \in 0..MaxAge : CleanupOldDocuments(a, 0)
    \/ Tick
    \/ FiveDaysLater

SpecAgeing == Init /\ [][NextAgeing]_vars

----
DataOps == {"store_document", "search_documents", "get_document", "delete_document",
            "get_collection_stats", "cleanup_old_documents"}

\* C1: a call of store_document, search_documents, get_document,
\* delete_document, get_collection_stats or cleanup_old_documents made while the
\* store is not Ready raises the uninitialized error, makes no backend call and
\* leaves the stored documents as they were.
C1_LifecycleGuard ==
    [][(~Ready /\ last' # last /\ last'.op \in DataOps)
          => /\ last'.outcome = "raised"
             /\ last'.result.error = "RuntimeError"
             /\ last'.calls = <<>>
             /\ db' = db]_vars

\* a data method has raised on a closed store that holds documents
C1_Witness ==
    /\ closed /\ ~Ready
    /\ last.op \in DataOps /\ last.outcome = "raised"
    /\ TotalDocs > 0

----
\* The call made by a step, if the step is a call of op
Called(op) == last' # last /\ last'.op = op

\* the collection the Ready service works on
Current == db[collection.v]

\* C2: a successful store_document followed by get_document on the returned id
\* returns a document whose content is the content that was passed to store,
\* for every content (the empty one and one longer than 8000 characters too).
C2_StoreGetContent ==
    (/\ last.op = "get_document" /\ last.outcome = "returned" /\ last.fault = 0
     /\ ~justStored.isNone
     /\ last.args.doc_id = justStored.v.doc_id)
        => /\ ~last.result.isNone
           /\ last.result.v.content = justStored.v.content

\* C3: after a successful store_document, the metadata get_document returns for
\* that id holds every key of the caller's metadata with the caller's value, and
\* created_at and content_length besides.
C3_StoreGetMetadata ==
    (/\ last.op = "get_document" /\ last.outcome = "returned" /\ last.fault = 0
     /\ ~justStored.isNone
     /\ last.args.doc_id = justStored.v.doc_id)
        => /\ ~last.result.isNone
           /\ {"created_at", "content_length"} \subseteq DOMAIN last.result.v.metadata
           /\ justStored.v.metadata.isNone
                 \/ \A k \in DOMAIN justStored.v.metadata.v :
                        /\ k \in DOMAIN last.result.v.metadata
                        /\ last.result.v.metadata[k] = justStored.v.metadata.v[k]

----
\* the digits s[a..b] read as a number
RECURSIVE Number(_, _, _)
Number(s, a, b) == IF b < a THEN 0 ELSE 10 * Number(s, a, b - 1) + (s[b] - 48)

\* the time a created_at string denotes, in ticks
IsoTime(s) ==
    Number(s, 1, 4) * TicksPerDay
      + (Number(s, 6, 7) * 3600 + Number(s, 9, 10) * 60 + Number(s, 12, 13)) * TicksPerSecond
      + (IF Len(s) > 13 THEN Number(s, 15, 20) \div MicrosPerTick ELSE 0)

CreatedAt(doc) == IsoTime(doc.metadata["created_at"].v)

\* C4: a cleanup_old_documents(max_age_days) call on a Ready store whose backend
\* works keeps every document created at or after now - max_age_days unchanged,
\* removes every document created before it, and returns as removed count the
\* number of documents that left the collection.
C4_RetentionSafety ==
    [][(/\ Ready /\ Called("cleanup_old_documents")
        /\ last'.fault = 0 /\ "cutoff_date" \in DOMAIN last'.result)
          => LET cutoff == CutoffDate(now, last'.args.max_age_days)
                 before == Current
                 after  == db'[collection.v]
             IN  /\ \A i \in Ids(before) :
                        IF CreatedAt(before[i]) >= cutoff
                        THEN i \in Ids(after) /\ after[i] = before[i]
                        ELSE i \notin Ids(after)
                 /\ Ids(after) \subseteq Ids(before)
                 /\ last'.result.removed = Cardinality(Ids(before) \ Ids(after))]_vars

\* a cleanup has removed one document and kept another
C4_Witness ==
    /\ Ready
    /\ last.op = "cleanup_old_documents" /\ last.fault = 0
    /\ "cutoff_date" \in DOMAIN last.result
    /\ last.result.removed = 1
    /\ Current # EmptyDict

----
\* C5: whatever documents are stored and in whatever order and with whatever
\* distances the backend answers, the sequence search_documents returns is
\* non-decreasing in distance.
C5_SearchOrdering ==
    (last.op = "search_documents" /\ last.outcome = "returned")
        => \A i, j \in 1..Len(last.result) :
               i < j => last.result[i].distance <= last.result[j].distance

\* the backend has answered with the farther document first
C5_Witness ==
    /\ last.op = "search_documents" /\ last.outcome = "returned"
    /\ Len(last.args.hits) >= 2
    /\ last.args.hits[1].distance > last.args.hits[2].distance
    /\ Len(last.result) = Len(last.args.hits)

----
\* C6: on a Ready store whose backend works, delete_document on an id that is
\* not stored reports success and changes nothing, so that repeating it reports
\* success again; after a delete the id is absent, and get_document on an absent
\* id reports not found.
C6_DeleteIdempotence ==
    /\ [][(Ready /\ Called("delete_document") /\ last'.fault = 0)
             => /\ last'.outcome = "returned" /\ last'.result = TRUE
                /\ last'.args.doc_id \notin Ids(db'[collection.v])
                /\ last'.args.doc_id \notin Ids(Current) => db' = db]_vars
    /\ []((/\ Ready /\ last.op = "get_document" /\ last.outcome = "returned"
           /\ last.fault = 0 /\ last.args.doc_id \notin Ids(Current))
              => last.result = None)

\* an id that was never stored has been deleted with success
C6_Witness ==
    /\ Ready
    /\ last.op = "delete_document" /\ last.outcome = "returned"
    /\ last.args.doc_id = "b" /\ last.result = TRUE

----
\* C7: once close() has been called on a Ready store, the store is never Ready
\* again, whatever is called later (initialize too).
C7_CloseTerminal == closed => ~Ready

\* C7, amended: a close() leaves the store not Ready; from then on every data
\* method raises the uninitialized error for as long as the store is not Ready,
\* and only an initialize call that returns brings the store back to Ready.
C7_ClosedUntilInitialize ==
    /\ [](last.op \in {"close", "__exit__"} => ~Ready)
    /\ [][(~Ready /\ Ready') => (last'.op = "initialize" /\ last'.outcome = "returned")]_vars
    /\ [][(closed /\ ~Ready /\ last' # last /\ last'.op \in DataOps)
             => (last'.outcome = "raised" /\ last'.result.error = "RuntimeError")]_vars

\* a closed store has been initialized again and is Ready
C7_Witness == closed /\ Ready /\ last.op = "initialize"

----
\* C8: close() and __exit__ return without raising in every lifecycle state and
\* leave the store without client and collection and not initialized; on a store
\* that holds no client a further close changes neither the lifecycle fields nor
\* the stored documents.
C8_IdempotentClose ==
    /\ [](last.op \in {"close", "__exit__"}
             => /\ last.outcome = "returned"
                /\ ~initialized /\ client = None /\ collection = None)
    /\ [][(client = None /\ last' # last /\ last'.op \in {"close", "__exit__"})
             => UNCHANGED <<initialized, client, collection, db, now, closed>>]_vars

\* a store that was Ready and holds documents is closed, __exit__ being the last call
C8_Witness ==
    /\ closed /\ last.op = "__exit__" /\ last.outcome = "returned"
    /\ client = None /\ TotalDocs > 0

----
\* C9: initialize on a Ready store returns without raising and without a
\* backend call, and leaves the lifecycle state, the client, the collection and
\* the stored documents as they were, whatever path is passed.
C9_IdempotentInitialize ==
    [][(Ready /\ Called("initialize"))
          => /\ last'.outcome = "returned" /\ last'.calls = <<>>
             /\ UNCHANGED <<initialized, client, collection, db>>]_vars

\* initialize has been called with another path on a store open on the default path
C9_Witness ==
    /\ Ready /\ collection = Some(DefaultPath)
    /\ last.op = "initialize" /\ last.args.db_path = Some(OtherPath)
    /\ last.outcome = "returned"

----
\* the failure value of each data method
IsFailureValue(op, result) ==
    CASE op = "store_document" ->
            /\ result.stored = FALSE
            /\ {"error", "doc_id"} \subseteq DOMAIN result
      [] op = "search_documents" -> result = <<>>
      [] op = "get_document" -> result = None
      [] op = "delete_document" -> result = FALSE
      [] op = "cleanup_old_documents" -> result.removed = 0 /\ "error" \in DOMAIN result
      [] op = "get_collection_stats" ->
            /\ result.total_documents = 0 /\ result.total_content_length = 0
            /\ result.avg_content_length = 0 /\ "error" \in DOMAIN result

\* C10: when the backend raises during a data method on a Ready store the call
\* returns, and what it returns is the method's failure value (for store with
\* the attempted id); a data method raises only the uninitialized error.
C10_FailuresAsData ==
    /\ (last.op \in DataOps /\ last.fault # 0)
          => /\ last.outcome = "returned"
             /\ IsFailureValue(last.op, last.result)
             /\ (last.op = "store_document" /\ ~last.args.doc_id.isNone)
                    => last.result.doc_id = last.args.doc_id.v
    /\ (last.op \in DataOps /\ last.outcome = "raised")
          => (last.result.error = "RuntimeError" /\ last.calls = <<>>)

\* Collection.delete has raised inside cleanup_old_documents
C10_Witness ==
    /\ last.op = "cleanup_old_documents" /\ last.fault = 2
    /\ last.calls = <<"get", "delete">>
    /\ last.outcome = "returned"

----
\* C11: the result get_document returns when the backend fails during the
\* lookup differs from the result it returns for an absent id (None), and
\* carries error detail.
C11_GetFailureDistinct ==
    (last.op = "get_document" /\ last.outcome = "returned" /\ last.fault # 0)
        => /\ last.result # GetResult(EmptyDict, last.args.doc_id)
           /\ "error" \in DOMAIN last.result

\* C11, amended: get_document returns None both for an absent id and when the
\* backend fails during the lookup; the result of a failed lookup carries no
\* error detail and equals the result for an absent id.
C11_GetFailureIsNone ==
    /\ (last.op = "get_document" /\ last.outcome = "returned" /\ last.fault # 0)
          => /\ last.result = None
             /\ last.result = GetResult(EmptyDict, last.args.doc_id)
    /\ (/\ Ready /\ last.op = "get_document" /\ last.outcome = "returned"
        /\ last.fault = 0 /\ last.args.doc_id \notin Ids(Current))
          => last.result = None

\* Collection.get has raised during the lookup of a stored id
C11_Witness ==
    /\ Ready /\ last.op = "get_document" /\ last.fault = 1
    /\ last.outcome = "returned"
    /\ last.args.doc_id \in Ids(Current)

----
\* C12: a store_document on an id that is already stored succeeds and leaves the
\* number of documents unchanged, and a get_document of that id after it returns
\* the content and the metadata of the later store (stated for a later content
\* that a store into an empty collection returns whole: not empty, not longer
\* than the embedding limit).
C12_RestoreOverwrites ==
    [][/\ (/\ Ready /\ Called("store_document") /\ last'.fault = 0
           /\ last'.result.doc_id \in Ids(Current))
             => /\ last'.result.stored
                /\ TotalDocs' = TotalDocs
       /\ (/\ Ready /\ Called("get_document") /\ last'.fault = 0
           /\ ~justStored.isNone /\ justStored.v.existed
           /\ justStored.v.content # ""
           /\ Len(justStored.v.content) <= EmbedLimit
           /\ last'.args.doc_id = justStored.v.doc_id)
             => /\ ~last'.result.isNone
                /\ last'.result.v.content = justStored.v.content
                /\ last'.result.v.metadata =
                      DocMetadata(justStored.v.content, justStored.v.metadata,
                                  justStored.v.at)]_vars

----
\* C13: two store_document calls without doc_id, made at different times with
\* the same content, get different ids: the later call never lands on the id of
\* a document that an earlier call stored at another time.
C13_GeneratedIdsUnique ==
    [][(/\ Ready /\ Called("store_document") /\ last'.fault = 0
        /\ last'.args.doc_id.isNone /\ last'.result.stored)
          => \/ last'.result.doc_id \notin Ids(Current)
             \/ CreatedAt(Current[last'.result.doc_id]) = now]_vars

----
\* C14: every document that a successful store_document has put in a collection
\* has a non-empty id, whether generated or supplied by the caller, and has
\* created_at and content_length in its metadata.
C14_StoredDocumentInvariant ==
    \A p \in Paths : \A i \in Ids(db[p]) :
        /\ i # ""
        /\ {"created_at", "content_length"} \subseteq DOMAIN db[p][i].metadata

----
\* C15: after a successful store_document, the content_length in the metadata
\* stored under the returned id and the content_length in the result both equal
\* the length of the content passed to the call, also when the content is longer
\* than the 8000 characters that are kept.
C15_ContentLengthOriginal ==
    [][(/\ Ready /\ Called("store_document") /\ last'.fault = 0
        /\ last'.result.stored)
          => /\ last'.result.content_length = Len(last'.args.content)
             /\ last'.result.doc_id \in Ids(db'[collection.v])
             /\ db'[collection.v][last'.result.doc_id].metadata["content_length"]
                   = IntVal(Len(last'.args.content))]_vars

----
\* C16: a get_collection_stats call whose backend works never asks the backend
\* for more than 100 documents, however many are stored, and reports as
\* total_documents the exact number of stored documents.
C16_StatsBound ==
    (/\ Ready /\ last.op = "get_collection_stats" /\ last.outcome = "returned"
     /\ last.fault = 0)
        => /\ last.limit <= SampleLimit
           /\ last.limit <= Cardinality(Ids(Current))
           /\ last.result.total_documents = Cardinality(Ids(Current))

\* statistics were taken of a collection that holds more than 100 documents
C16_Witness ==
    /\ Ready /\ last.op = "get_collection_stats" /\ last.outcome = "returned"
    /\ last.fault = 0
    /\ last.result.total_documents > SampleLimit
    /\ last.limit = SampleLimit

----
\* how long ago a stored document was created, in ticks and in whole days
Age(doc) == now - CreatedAt(doc)

AgeDays(doc) == Age(doc) \div TicksPerDay

\* the collection holds a document stored five days ago and one stored moments
\* ago, and cleanup_old_documents(0) is called
CleanupOfOldAndNew(x, y) ==
    /\ Ready /\ Called("cleanup_old_documents")
    /\ last'.fault = 0 /\ last'.args.max_age_days = 0
    /\ Ids(Current) = {x, y} /\ x # y
    /\ AgeDays(Current[x]) = 5
    /\ Age(Current[y]) \in 0..MaxTicks

\* C17: cleanup_old_documents(0) on a store that holds one document stored
\* moments before the call and one that is 5 days old removes only the
\* 5-day-old one and returns a removed count of 1; the document just stored
\* stays in the collection.
C17_CleanupZeroKeepsNew ==
    [][\A x, y \in StoredIds :
          CleanupOfOldAndNew(x, y)
             => /\ last'.result.removed = 1
                /\ Ids(db'[collection.v]) = {y}
                /\ db'[collection.v][y] = Current[y]]_vars

\* C17, amended: cleanup_old_documents(0) removes every document created before
\* the instant of the call. On a store that holds a 5-day-old document and one
\* stored moments before, it removes both and returns 2 when the clock has moved
\* since the later store; it keeps the later document and returns 1 only when
\* the call reads the very instant of that store.
C17_CleanupZeroRemovesEarlier ==
    [][\A x, y \in StoredIds :
          CleanupOfOldAndNew(x, y)
             => IF Age(Current[y]) > 0
                THEN /\ last'.result.removed = 2
                     /\ Ids(db'[collection.v]) = {}
                ELSE /\ last'.result.removed = 1
                     /\ Ids(db'[collection.v]) = {y}
                     /\ db'[collection.v][y] = Current[y]]_vars

\* cleanup_old_documents(0), called after the document stored five days later
\* had been stored and the clock had moved, has removed both documents
C17_Witness ==
    /\ Ready /\ last.op = "cleanup_old_documents" /\ last.outcome = "returned"
    /\ last.fault = 0 /\ last.args.max_age_days = 0
    /\ last.result.removed = 2
    /\ Ids(Current) = {}
    /\ now \div TicksPerDay = StartDay + 5

----
\* s is made of digits from position a to position b
DigitsAt(s, a, b) == \A k \in a..b : s[k] \in 48..57

\* s has the form datetime.isoformat() gives: dddd "T" hh ":" mm ":" ss, with
\* an optional "." and six digits
IsIsoTimestamp(s) ==
    /\ Len(s) \in {13, 20}
    /\ DigitsAt(s, 1, 4) /\ s[5] = 84
    /\ DigitsAt(s, 6, 7) /\ s[8] = 58
    /\ DigitsAt(s, 9, 10) /\ s[11] = 58
    /\ DigitsAt(s, 12, 13)
    /\ Len(s) = 20 => (s[14] = 46 /\ DigitsAt(s, 15, 20))

\* the metadata carries a created_at that is a well-formed timestamp
HasTimestamp(meta) ==
    /\ "created_at" \in DOMAIN meta
    /\ meta["created_at"].t = "str"
    /\ IsIsoTimestamp(meta["created_at"].v)

\* C18: whatever max_age_days is, cleanup_old_documents never removes a document
\* whose metadata is missing, has no created_at, or has a created_at that is not
\* a well-formed timestamp (not a string, or a string that is no timestamp).
C18_RetentionFailSafe ==
    [][(Ready /\ Called("cleanup_old_documents"))
          => \A i \in Ids(Current) :
                ~HasTimestamp(Current[i].metadata) => i \in Ids(db'[collection.v])]_vars

----
\* the last successful store_document was the headline stored without id and
\* without metadata
NewsStored ==
    /\ ~justStored.isNone
    /\ justStored.v.content = NewsContent
    /\ justStored.v.metadata.isNone
    /\ justStored.v.doc_id = GenId(NewsContent, justStored.v.at)

NewsStoreReturned ==
    /\ last.op = "store_document" /\ last.outcome = "returned" /\ last.fault = 0
    /\ last.args = [content |-> NewsContent, doc_id |-> None, metadata |-> None]

NewsGetReturned ==
    /\ last.op = "get_document" /\ last.outcome = "returned" /\ last.fault = 0
    /\ NewsStored
    /\ last.args.doc_id = justStored.v.doc_id

\* C19: storing "Breaking news: markets rally" without id and without metadata
\* on a Ready store returns stored = true with a content length of 29, and a
\* get_document on the returned id returns the identical content.
C19_StoreScenario ==
    /\ NewsStoreReturned
          => /\ last.result.stored
             /\ last.result.content_length = 29
    /\ NewsGetReturned
          => /\ ~last.result.isNone
             /\ last.result.v.content = NewsContent

\* C19, amended: the same call returns stored = true with a content length of
\* 28, the number of characters of the headline, and a get_document on the
\* returned id returns the identical content.
C19_StoreScenarioLength ==
    /\ NewsStoreReturned
          => /\ last.result.stored
             /\ last.result.content_length = 28
             /\ last.result.doc_id = justStored.v.doc_id
    /\ NewsGetReturned
          => /\ ~last.result.isNone
             /\ last.result.v.content = NewsContent
             /\ last.result.v.metadata["content_length"] = IntVal(28)

\* the headline stored without id and metadata has been read back
C19_Witness == NewsGetReturned /\ ~last.result.isNone

----
\* C20: the created_at recorded for a stored id does not change as long as the
\* document stays in the collection, whatever is called, a later store_document
\* with the same id included.
C20_CreatedAtImmutable ==
    [][\A p \in Paths : \A i \in Ids(db[p]) \cap Ids(db'[p]) :
          db'[p][i].metadata["created_at"] = db[p][i].metadata["created_at"]]_vars

\* a store_document on an id stored at an earlier time has returned, and the
\* document keeps the created_at of the earlier store
C20_Witness ==
    /\ Ready
    /\ last.op = "store_document" /\ last.outcome = "returned" /\ last.result.stored
    /\ ~justStored.isNone /\ justStored.v.existed
    /\ justStored.v.doc_id \in Ids(Current)
    /\ CreatedAt(Current[justStored.v.doc_id]) < justStored.v.at
    /\ IsoTime(last.result.timestamp.v) = justStored.v.at

----
\* get_collection_stats has returned its statistics from a working backend
StatsReturned ==
    /\ Ready /\ last.op = "get_collection_stats" /\ last.outcome = "returned"
    /\ last.fault = 0

\* the sum of the numeric content_length values of every stored document
TotalCounted ==
    SumOver([i \in Ids(Current) |-> CountedLength(Current[i].metadata)], Ids(Current))

\* C21: avg_content_length is the floor of total_content_length divided by the
\* number of sampled documents, where every sampled document counts in the
\* divisor, also one whose metadata has no numeric content_length; it is 0, and
\* the call returns, when the sample is empty.
C21_StatsAverage ==
    StatsReturned
        => /\ last.sampled = Min(SampleLimit, Cardinality(Ids(Current)))
           /\ last.sampled = Cardinality(Ids(Current))
                 => last.result.total_content_length = TotalCounted
           /\ IF last.sampled = 0
              THEN last.result.avg_content_length = 0
              ELSE /\ last.result.avg_content_length * last.sampled
                         <= last.result.total_content_length
                   /\ last.result.total_content_length
                         < (last.result.avg_content_length + 1) * last.sampled

\* statistics of a sample that holds a document without numeric content_length
\* and whose total is no multiple of the sample size
C21_Witness ==
    /\ StatsReturned
    /\ last.sampled = Cardinality(Ids(Current))
    /\ \E i \in Ids(Current) : "content_length" \notin DOMAIN Current[i].metadata
    /\ last.result.total_content_length > 0
    /\ last.result.total_content_length % last.sampled # 0

----
\* a data method has gone past the lifecycle guard and returned
DataCallReturned == last.op \in DataOps /\ last.outcome = "returned"

\* the methods that reach the backend once
SingleCallOps == {"store_document", "get_document", "delete_document", "search_documents"}

\* C22: each call of store_document, get_document, delete_document,
\* search_documents and get_collection_stats makes exactly one backend
\* interaction, and a cleanup_old_documents call makes one scan followed by at
\* most one batch delete (stated for the cleanup calls that got as far as the
\* scan).
C22_OneInteraction ==
    DataCallReturned
        => /\ last.op \in SingleCallOps \cup {"get_collection_stats"}
                 => Len(last.calls) = 1
           /\ (last.op = "cleanup_old_documents" /\ last.calls # <<>>)
                 => last.calls \in {<<"get">>, <<"get", "delete">>}

\* C22, amended: store_document, get_document, delete_document and
\* search_documents make exactly one backend interaction per call;
\* get_collection_stats makes two, a count followed by a get (only the count
\* when the count fails); cleanup_old_documents makes one scan followed by at
\* most one batch delete, and none when its cutoff cannot be computed. A call
\* spans more than one interaction only in these two methods.
C22_InteractionsPerCall ==
    DataCallReturned
        => /\ last.op = "store_document" => last.calls = <<"add">>
           /\ last.op = "get_document" => last.calls = <<"get">>
           /\ last.op = "delete_document" => last.calls = <<"delete">>
           /\ last.op = "search_documents" => last.calls = <<"query">>
           /\ last.op = "get_collection_stats"
                 => last.calls = IF last.fault = 1 THEN <<"count">> ELSE <<"count", "get">>
           /\ last.op = "cleanup_old_documents"
                 => /\ last.calls \in {<<>>, <<"get">>, <<"get", "delete">>}
                    /\ last.calls = <<>> <=> (last.fault = 0 /\ "cutoff_date" \notin DOMAIN last.result)
                    /\ (last.fault = 0 /\ last.calls = <<"get", "delete">>)
                          => last.result.removed > 0

\* get_collection_stats has counted and then sampled a collection that holds
\* documents
C22_Witness ==
    /\ StatsReturned
    /\ last.calls = <<"count", "get">>
    /\ last.result.total_documents > 0

----
\* C23: a store_document call that got past the lifecycle guard leaves the
\* mapping passed as metadata with the keys and values it had before the call.
C23_MetadataArgumentUnchanged ==
    (last.op = "store_document" /\ last.outcome = "returned")
        => last.caller_metadata = last.args.metadata

====
